---- MODULE Spec2Model ----
(***************************************************************************)
(* InvoicyPro Dynamics, server.js: the in-memory store `db` and the        *)
(* client, invoice, payment and report routes that read and mutate it.     *)
(*                                                                         *)
(* Every route handler is an operator from the store (and the request) to  *)
(* the new store and the response; an action applies one handler to `db`.  *)
(* Node runs each synchronous handler to completion, so one action is one  *)
(* whole request.                                                          *)
(*                                                                         *)
(* Money is fixed-point: the integer n stands for the JavaScript number    *)
(* n / 1000, so toFixed(2) is a rounding to a multiple of 10.  Dates are   *)
(* whole days.  A uuid is a pair <<kind, n>> drawn from a counter.         *)
(***************************************************************************)
EXTENDS Integers, Sequences, FiniteSets, TLC

VARIABLES
    db,      \* the store: [clients, invoices, payments], each an array
    now,     \* the clock read by new Date()
    uuids,   \* how many uuids uuidv4() has handed out, per kind
    solo,    \* SpecPair: the store of the run that serves user u2 alone
    seen,    \* SpecPair: the status of u2's last answer in the two runs
    inflight \* the requests being served: where each one's handler stands

vars == <<db, now, uuids, solo, seen, inflight>>

(***************************************************************************)
(* Bounds of the model.                                                    *)
(***************************************************************************)
MaxClients == 2
MaxInvoices == 2
MaxPayments == 2
MaxRegistry == 3   \* clients created in SpecClients
MaxNumbered == 3   \* invoices created in SpecInvoices
MaxTicks == 1      \* days the clock advances in SpecInvoices
MaxUsers == 3      \* users registered in SpecRegister
MaxInflight == 2   \* requests served at the same time

(***************************************************************************)
(* JavaScript helpers.                                                     *)
(***************************************************************************)
Has(r, k) == k \in DOMAIN r

\* { ...a, ...b }: the keys of b win.
Spread(a, b) ==
    [k \in (DOMAIN a) \cup (DOMAIN b) |-> IF k \in DOMAIN b THEN b[k] ELSE a[k]]

\* const { client_id, items, ...rest } = body
Rest(body, taken) == [k \in (DOMAIN body) \ taken |-> body[k]]

\* Array.prototype.findIndex, 1-based; 0 when nothing matches.
FindIndex(seq, P(_)) ==
    IF \E i \in 1..Len(seq) : P(seq[i])
    THEN CHOOSE i \in 1..Len(seq) : P(seq[i]) /\ \A j \in 1..(i - 1) : ~P(seq[j])
    ELSE 0

\* Array.prototype.filter
Filter(seq, P(_)) == SelectSeq(seq, P)

\* Array.prototype.map
Map(seq, f(_)) == [i \in 1..Len(seq) |-> f(seq[i])]

\* reduce((sum, x) => sum + x, 0)
RECURSIVE Sum(_)
Sum(seq) == IF seq = <<>> THEN 0 ELSE Head(seq) + Sum(Tail(seq))

\* Number.prototype.toFixed(2) followed by parseFloat, on a value >= 0.
ToFixed2(x) == ((x + 5) \div 10) * 10

\* One currency unit (1.00) in the fixed-point representation.
One == 1000

(***************************************************************************)
(* Dates.                                                                  *)
(***************************************************************************)
DaysPerYear == 365
EpochYear == 2026

\* The day the server starts: the last day of a year.
Day0 == DaysPerYear - 1

\* new Date().getFullYear()
getFullYear(t) == EpochYear + (t \div DaysPerYear)

\* new Date(new Date().setDate(now.getDate() - 30))
thirtyDaysAgo(t) == t - 30

(***************************************************************************)
(* Principals: the payload authenticateToken puts in req.user.             *)
(***************************************************************************)
UserIds == {"u1", "u2"}
Users == [id : UserIds, roles : {{"user"}}]

(***************************************************************************)
(* Client routes.                                                          *)
(***************************************************************************)
\* normalizeEmail(): lower-cases the address.
normalizeEmail(e) == IF e = "A@x.io" THEN "a@x.io" ELSE e

\* isEmail()
isEmail(e) == e \in {"A@x.io", "a@x.io", "b@x.io"}

\* clientValidationRules + validateRequest
clientValidationRules(body) == body.name # "" /\ isEmail(body.email)

\* clientRouter.post('/')
PostClient(d, user, body, id) ==
    IF ~clientValidationRules(body) THEN [db |-> d, status |-> 400]
    ELSE LET email == normalizeEmail(body.email)
             existing(c) == c.email = email /\ c.userId = user.id
         IN IF FindIndex(d.clients, existing) # 0
            THEN [db |-> d, status |-> 400]
            ELSE [db |-> [d EXCEPT !.clients = Append(@,
                            [id |-> id, userId |-> user.id,
                             name |-> body.name, email |-> email])],
                  status |-> 201]

\* clientRouter.put('/:id')
PutClient(d, user, cid, body) ==
    IF ~clientValidationRules(body) THEN [db |-> d, status |-> 400]
    ELSE LET own(c) == c.id = cid /\ c.userId = user.id
             clientIndex == FindIndex(d.clients, own)
         IN IF clientIndex = 0
            THEN [db |-> d, status |-> 404]
            ELSE [db |-> [d EXCEPT !.clients[clientIndex] =
                            Spread(@, [name |-> body.name,
                                       email |-> normalizeEmail(body.email)])],
                  status |-> 200]

\* Mutant of DeleteClient: the invoices of the client go with it.
DeleteClientCascade(d, user, cid) ==
    LET keep(c) == ~(c.id = cid /\ c.userId = user.id)
        left == Filter(d.clients, keep)
        other(inv) == inv.clientId # cid
    IN IF Len(left) = Len(d.clients)
       THEN [db |-> [d EXCEPT !.clients = left], status |-> 404]
       ELSE [db |-> [d EXCEPT !.clients = left, !.invoices = Filter(@, other)],
             status |-> 204]

\* clientRouter.delete('/:id')
DeleteClient(d, user, cid) ==
    LET keep(c) == ~(c.id = cid /\ c.userId = user.id)
        left == Filter(d.clients, keep)
    IN IF Len(left) = Len(d.clients)
       THEN [db |-> [d EXCEPT !.clients = left], status |-> 404]
       ELSE [db |-> [d EXCEPT !.clients = left], status |-> 204]

(***************************************************************************)
(* Invoice routes.                                                         *)
(***************************************************************************)
\* String(n): the decimal digits of n >= 0, most significant first.
RECURSIVE String(_)
String(n) == IF n < 10 THEN <<n>> ELSE Append(String(n \div 10), n % 10)

\* String.prototype.padStart(len, ch)
RECURSIVE padStart(_, _, _)
padStart(s, len, ch) == IF Len(s) >= len THEN s ELSE padStart(<<ch>> \o s, len, ch)

\* `INV-${year}-${sequence}`
generateInvoiceNumber(d, t) ==
    <<"INV", getFullYear(t), padStart(String(Len(d.invoices) + 1), 5, 0)>>

Statuses == {"draft", "pending", "paid", "partially_paid", "overdue", "cancelled"}

\* invoiceItemValidation
invoiceItemValidation(item) ==
    /\ item.quantity > 0
    /\ item.unit_price >= 0
    /\ Has(item, "tax_rate") => (item.tax_rate >= 0 /\ item.tax_rate <= 100)

\* invoiceValidationRules + validateRequest
invoiceValidationRules(body) ==
    /\ body.status \in Statuses
    /\ Has(body, "global_tax_rate") =>
           (body.global_tax_rate >= 0 /\ body.global_tax_rate <= 100)
    /\ Len(body.items) >= 1
    /\ \A i \in 1..Len(body.items) : invoiceItemValidation(body.items[i])

\* item.tax_rate || invoiceData.global_tax_rate || 0
TaxRate(item, invoiceData) ==
    IF Has(item, "tax_rate") /\ item.tax_rate # 0 THEN item.tax_rate
    ELSE IF Has(invoiceData, "global_tax_rate") /\ invoiceData.global_tax_rate # 0
         THEN invoiceData.global_tax_rate
         ELSE 0

\* The items.forEach loop and parseFloat(totalAmount.toFixed(2)).
TotalAmount(items, invoiceData) ==
    LET line(item) ==
            LET itemSubtotal == item.quantity * item.unit_price
                taxAmount == (itemSubtotal * TaxRate(item, invoiceData)) \div 100
            IN itemSubtotal + taxAmount
    IN ToFixed2(Sum(Map(items, line)))

\* invoiceRouter.post('/')
PostInvoice(d, user, body, id, t) ==
    IF ~invoiceValidationRules(body) THEN [db |-> d, status |-> 400]
    ELSE LET invoiceData == Rest(body, {"client_id", "items"})
             own(c) == c.id = body.client_id /\ c.userId = user.id
             ci == FindIndex(d.clients, own)
         IN IF ci = 0
            THEN [db |-> d, status |-> 404]
            ELSE LET newInvoice ==
                         Spread(Spread([id |-> id,
                                        userId |-> user.id,
                                        clientId |-> body.client_id,
                                        client_name |-> d.clients[ci].name,
                                        invoice_number |-> generateInvoiceNumber(d, t)],
                                       invoiceData),
                                [items |-> body.items,
                                 total_amount |-> TotalAmount(body.items, invoiceData),
                                 updatedAt |-> t])
                 IN [db |-> [d EXCEPT !.invoices = Append(@, newInvoice)],
                     status |-> 201]

\* invoiceRouter.put('/:id')
PutInvoice(d, user, iid, body, t) ==
    IF ~invoiceValidationRules(body) THEN [db |-> d, status |-> 400]
    ELSE LET mine(inv) == inv.id = iid /\ inv.userId = user.id
             invoiceIndex == FindIndex(d.invoices, mine)
             invoiceData == Rest(body, {"client_id", "items"})
             own(c) == c.id = body.client_id /\ c.userId = user.id
             ci == FindIndex(d.clients, own)
         IN IF invoiceIndex = 0 \/ ci = 0
            THEN [db |-> d, status |-> 404]
            ELSE LET updatedInvoice ==
                         Spread(Spread(Spread(d.invoices[invoiceIndex],
                                              [clientId |-> body.client_id,
                                               client_name |-> d.clients[ci].name]),
                                       invoiceData),
                                [items |-> body.items,
                                 total_amount |-> TotalAmount(body.items, invoiceData),
                                 updatedAt |-> t])
                 IN [db |-> [d EXCEPT !.invoices[invoiceIndex] = updatedInvoice],
                     status |-> 200]

\* Mutant of DeleteInvoice: the payments of the deleted invoice are kept.
DeleteInvoiceNoCascade(d, user, iid) ==
    LET keep(inv) == ~(inv.id = iid /\ inv.userId = user.id)
        left == Filter(d.invoices, keep)
    IN IF Len(left) = Len(d.invoices)
       THEN [db |-> [d EXCEPT !.invoices = left], status |-> 404]
       ELSE [db |-> [d EXCEPT !.invoices = left], status |-> 204]

\* Mutant of DeleteInvoice: the cascade takes every payment of the caller.
DeleteInvoiceSweep(d, user, iid) ==
    LET keep(inv) == ~(inv.id = iid /\ inv.userId = user.id)
        left == Filter(d.invoices, keep)
        other(p) == p.userId # user.id
    IN IF Len(left) = Len(d.invoices)
       THEN [db |-> [d EXCEPT !.invoices = left], status |-> 404]
       ELSE [db |-> [d EXCEPT !.invoices = left,
                              !.payments = Filter(@, other)],
             status |-> 204]

\* invoiceRouter.delete('/:id')
DeleteInvoice(d, user, iid) ==
    LET keep(inv) == ~(inv.id = iid /\ inv.userId = user.id)
        left == Filter(d.invoices, keep)
        other(p) == p.invoiceId # iid
    IN IF Len(left) = Len(d.invoices)
       THEN [db |-> [d EXCEPT !.invoices = left], status |-> 404]
       ELSE [db |-> [d EXCEPT !.invoices = left,
                              !.payments = Filter(@, other)],
             status |-> 204]

(***************************************************************************)
(* Payment routes.                                                         *)
(***************************************************************************)
\* Mutant of paymentValidationRules: an amount of 0 passes.
paymentValidationRulesLax(body) == body.amount >= 0 /\ body.payment_method # ""

\* paymentValidationRules + validateRequest
paymentValidationRules(body) == body.amount > 0 /\ body.payment_method # ""

\* The amounts of the payments whose invoiceId is iid.
AmountsFor(payments, iid) ==
    LET ofInvoice(p) == p.invoiceId = iid
        amount(p) == p.amount
    IN Map(Filter(payments, ofInvoice), amount)

\* Mutant of DerivedStatus: `>` for `>=`.
DerivedStatusStrict(totalPaid, invoice) ==
    IF totalPaid > invoice.total_amount THEN "paid"
    ELSE IF totalPaid > 0 THEN "partially_paid"
    ELSE invoice.status

\* The status the payment recorder derives from totalPaid.
DerivedStatus(totalPaid, invoice) ==
    IF totalPaid >= invoice.total_amount THEN "paid"
    ELSE IF totalPaid > 0 THEN "partially_paid"
    ELSE invoice.status

\* invoiceRouter.post('/:id/payments')
PostPayment(d, user, iid, body, id, t) ==
    IF ~paymentValidationRules(body) THEN [db |-> d, status |-> 400]
    ELSE LET mine(inv) == inv.id = iid /\ inv.userId = user.id
             ii == FindIndex(d.invoices, mine)
         IN IF ii = 0
            THEN [db |-> d, status |-> 404]
            ELSE LET newPayment == [id |-> id,
                                    invoiceId |-> iid,
                                    userId |-> user.id,
                                    amount |-> body.amount,
                                    payment_date |-> body.payment_date,
                                    payment_method |-> body.payment_method]
                     payments == Append(d.payments, newPayment)
                     totalPaid == Sum(AmountsFor(payments, iid))
                 IN [db |-> [d EXCEPT
                               !.payments = payments,
                               !.invoices[ii] =
                                   Spread(@, [status |-> DerivedStatus(totalPaid, @),
                                              updatedAt |-> t])],
                     status |-> 201]

\* invoiceRouter.get('/:id/payments')
GetPayments(d, user, iid) ==
    LET mine(inv) == inv.id = iid /\ inv.userId = user.id
        listed(p) == p.invoiceId = iid /\ p.userId = user.id
    IN IF FindIndex(d.invoices, mine) = 0
       THEN [status |-> 404, data |-> <<>>]
       ELSE [status |-> 200, data |-> Filter(d.payments, listed)]

(***************************************************************************)
(* Report routes.                                                          *)
(***************************************************************************)
\* balanceDue = inv.total_amount - totalPaidForInvoice
BalanceDue(d, inv) == inv.total_amount - Sum(AmountsFor(d.payments, inv.id))

\* Mutant of IsOutstanding: the balance is not looked at.
IsOutstandingAnyBalance(d, inv) ==
    inv.status \in {"pending", "partially_paid", "overdue"}

\* The guard of `totalOutstanding += balanceDue`.
IsOutstanding(d, inv) ==
    /\ BalanceDue(d, inv) > 0
    /\ inv.status \in {"pending", "partially_paid", "overdue"}

\* Mutant of IsOverdue: the test is not nested in the outstanding one.
IsOverdueUnnested(d, inv, t) ==
    /\ Has(inv, "due_date")
    /\ inv.due_date < t
    /\ inv.status # "paid"
    /\ inv.status # "cancelled"

\* The guard of `totalOverdue += balanceDue`, nested in the one above.
IsOverdue(d, inv, t) ==
    /\ IsOutstanding(d, inv)
    /\ Has(inv, "due_date")
    /\ inv.due_date < t
    /\ inv.status # "paid"
    /\ inv.status # "cancelled"

\* The guard of `paidLast30Days += p.amount`.
IsRecent(p, t) == p.payment_date >= thirtyDaysAgo(t)

\* reportRouter.get('/summary')
Summary(d, user, t) ==
    LET mine(inv) == inv.userId = user.id
        userInvoices == Filter(d.invoices, mine)
        outstanding(inv) == IF IsOutstanding(d, inv) THEN BalanceDue(d, inv) ELSE 0
        overdue(inv) == IF IsOverdue(d, inv, t) THEN BalanceDue(d, inv) ELSE 0
        recent(inv) ==
            LET counted(p) == p.invoiceId = inv.id /\ IsRecent(p, t)
                amount(p) == p.amount
            IN Sum(Map(Filter(d.payments, counted), amount))
    IN [total_outstanding |-> ToFixed2(Sum(Map(userInvoices, outstanding))),
        total_overdue |-> ToFixed2(Sum(Map(userInvoices, overdue))),
        paid_last_30_days |-> ToFixed2(Sum(Map(userInvoices, recent)))]

\* authorizeRole(roles)
authorizeRole(roles, user) == Has(user, "roles") /\ roles \cap user.roles # {}

\* Mutant of SortByRevenue: the entries stay in the order of the clients.
SortByRevenueNone(seq) == seq

\* Array.prototype.sort((a, b) => b.total_revenue - a.total_revenue), stable.
RECURSIVE SortByRevenue(_)
SortByRevenue(seq) ==
    IF seq = <<>> THEN <<>>
    ELSE LET n == Len(seq)
             sorted == SortByRevenue(SubSeq(seq, 1, n - 1))
             x == seq[n]
             before == Cardinality({i \in 1..Len(sorted) :
                                       sorted[i].total_revenue >= x.total_revenue})
         IN SubSeq(sorted, 1, before) \o <<x>> \o SubSeq(sorted, before + 1, Len(sorted))

\* Mutant of TargetUserId: the admin role is not asked for.
TargetUserIdUnchecked(user, query) ==
    IF Has(query, "userId") THEN query.userId ELSE user.id

\* req.user.roles.includes('admin') && req.query.userId ? req.query.userId : req.user.id
TargetUserId(user, query) ==
    IF "admin" \in user.roles /\ Has(query, "userId") THEN query.userId ELSE user.id

\* reportRouter.get('/revenue-by-client')
RevenueByClient(d, user, query) ==
    IF ~authorizeRole({"admin", "user"}, user) THEN [status |-> 403, data |-> <<>>]
    ELSE LET targetUserId == TargetUserId(user, query)
             owned(c) == c.userId = targetUserId
             userClients == Filter(d.clients, owned)
             entry(client) ==
                 LET counted(inv) ==
                         /\ inv.clientId = client.id
                         /\ inv.userId = targetUserId
                         /\ inv.status \in {"paid", "partially_paid"}
                     clientInvoices == Filter(d.invoices, counted)
                     paid(inv) == Sum(AmountsFor(d.payments, inv.id))
                 IN [client_id |-> client.id,
                     client_name |-> client.name,
                     invoice_count |-> Len(clientInvoices),
                     total_revenue |-> ToFixed2(Sum(Map(clientInvoices, paid)))]
             positive(e) == e.total_revenue > 0
         IN [status |-> 200,
             data |-> SortByRevenue(Filter(Map(userClients, entry), positive))]

(***************************************************************************)
(* Requests.                                                               *)
(***************************************************************************)
Uuids(kind, cap) == {<<kind, k>> : k \in 1..cap}

\* {qty 2, price 100.00, tax 10}, {qty 1, price 50.00, tax 0}, an item without
\* a tax rate, and one whose tax does not come out in whole cents.
ItemA == [quantity |-> 2, unit_price |-> 100 * One, tax_rate |-> 10]
ItemB == [quantity |-> 1, unit_price |-> 50 * One, tax_rate |-> 0]
ItemC == [quantity |-> 1, unit_price |-> 130 * One]
ItemD == [quantity |-> 1, unit_price |-> 100, tax_rate |-> 5]

InvoiceBody(cid, items, status) ==
    [client_id |-> cid, items |-> items, status |-> status]

\* The requests of the specification Spec.
ClientBodies == {[name |-> "Acme", email |-> "a@x.io"]}

InvoiceBodies ==
    UNION {{Spread(InvoiceBody(cid, <<ItemA, ItemB>>, "pending"), [due_date |-> Day0 - 1]),
            Spread(InvoiceBody(cid, <<ItemC>>, "cancelled"), [due_date |-> Day0 - 1]),
            InvoiceBody(cid, <<ItemC>>, "overdue"),
            Spread(InvoiceBody(cid, <<ItemA, ItemB>>, "draft"),
                   [global_tax_rate |-> 10, due_date |-> Day0 - 1])}
           : cid \in Uuids("client", MaxClients)}

\* An update that changes items, total, status and due date.
UpdateBodies ==
    {Spread(InvoiceBody(cid, <<ItemC>>, "pending"), [due_date |-> Day0 - 1])
       : cid \in Uuids("client", MaxClients)}

PaymentBodies ==
    {[amount |-> 100 * One, payment_date |-> Day0 - 30, payment_method |-> "cash"],
     [amount |-> 170 * One, payment_date |-> Day0 + 1, payment_method |-> "card"],
     [amount |-> 4, payment_date |-> Day0 - 31, payment_method |-> "cash"]}

\* Payment requests the validation rules refuse: no amount, a negative one, no
\* payment method.
RejectedPayments ==
    {[amount |-> 0, payment_date |-> Day0, payment_method |-> "cash"],
     [amount |-> 0 - One, payment_date |-> Day0, payment_method |-> "cash"],
     [amount |-> 100 * One, payment_date |-> Day0, payment_method |-> ""]}

(***************************************************************************)
(* Actions: one per route.                                                 *)
(***************************************************************************)
\* A slot of `inflight` that holds no request.
Idle == [pc |-> "idle"]

Slots == 1..MaxInflight

Init ==
    /\ db = [users |-> <<>>, settings |-> <<>>,
             clients |-> <<>>, invoices |-> <<>>, payments |-> <<>>]
    /\ now = Day0
    /\ uuids = [user |-> 0, client |-> 0, invoice |-> 0, payment |-> 0]
    /\ solo = db
    /\ seen = <<0, 0>>
    /\ inflight = [s \in Slots |-> Idle]

\* uuidv4(): the next unused id of a kind.
uuidv4(kind) == <<kind, uuids[kind] + 1>>

\* What a handler's answer does to the uuid counter: an id is drawn only on
\* the path that stores the new record.
Drawn(kind, r) == IF r.status = 201 THEN [uuids EXCEPT ![kind] = @ + 1] ELSE uuids

CreateClient(users, bodies, cap) ==
    \E user \in users, body \in bodies :
        /\ uuids.client < cap
        /\ LET r == PostClient(db, user, body, uuidv4("client"))
           IN db' = r.db /\ uuids' = Drawn("client", r)
        /\ UNCHANGED <<now, solo, seen, inflight>>

UpdateClient(users, bodies, cap) ==
    \E user \in users, cid \in Uuids("client", cap), body \in bodies :
        /\ db' = PutClient(db, user, cid, body).db
        /\ UNCHANGED <<now, uuids, solo, seen, inflight>>

RemoveClient(users, cap) ==
    \E user \in users, cid \in Uuids("client", cap) :
        /\ db' = DeleteClient(db, user, cid).db
        /\ UNCHANGED <<now, uuids, solo, seen, inflight>>

CreateInvoice(users, bodies, cap) ==
    \E user \in users, body \in bodies :
        /\ uuids.invoice < cap
        /\ LET r == PostInvoice(db, user, body, uuidv4("invoice"), now)
           IN db' = r.db /\ uuids' = Drawn("invoice", r)
        /\ UNCHANGED <<now, solo, seen, inflight>>

UpdateInvoice(users, bodies, cap) ==
    \E user \in users, iid \in Uuids("invoice", cap), body \in bodies :
        /\ db' = PutInvoice(db, user, iid, body, now).db
        /\ UNCHANGED <<now, uuids, solo, seen, inflight>>

RemoveInvoice(users, cap) ==
    \E user \in users, iid \in Uuids("invoice", cap) :
        /\ db' = DeleteInvoice(db, user, iid).db
        /\ UNCHANGED <<now, uuids, solo, seen, inflight>>

RecordPayment(users, bodies, cap) ==
    \E user \in users, iid \in Uuids("invoice", cap), body \in bodies :
        /\ uuids.payment < MaxPayments
        /\ LET r == PostPayment(db, user, iid, body, uuidv4("payment"), now)
           IN db' = r.db /\ uuids' = Drawn("payment", r)
        /\ UNCHANGED <<now, solo, seen, inflight>>

\* Time passes between two requests.
Tick ==
    /\ now < Day0 + MaxTicks
    /\ now' = now + 1
    /\ UNCHANGED <<db, uuids, solo, seen, inflight>>

(***************************************************************************)
(* Spec: the ledger.  Clients, invoices and payments of two users at one   *)
(* instant of the clock.                                                   *)
(***************************************************************************)
Next ==
    \/ CreateClient(Users, ClientBodies, MaxClients)
    \/ RemoveClient(Users, MaxClients)
    \/ CreateInvoice(Users, InvoiceBodies, MaxInvoices)
    \/ UpdateInvoice(Users, UpdateBodies, MaxInvoices)
    \/ RemoveInvoice(Users, MaxInvoices)
    \/ RecordPayment(Users, PaymentBodies \cup RejectedPayments, MaxInvoices)

Spec == Init /\ [][Next]_vars

(***************************************************************************)
(* SpecClients: the client registry alone, with addresses that differ only *)
(* in case, a second name, and bodies the validation rejects.              *)
(***************************************************************************)
RegistryBodies ==
    [name : {"Acme", "Bolt"}, email : {"A@x.io", "a@x.io", "b@x.io"}]
        \cup {[name |-> "", email |-> "a@x.io"], [name |-> "Acme", email |-> "nobody"]}

NextClients ==
    \/ CreateClient(Users, RegistryBodies, MaxRegistry)
    \/ UpdateClient(Users, RegistryBodies, MaxRegistry)
    \/ RemoveClient(Users, MaxRegistry)

SpecClients == Init /\ [][NextClients]_vars

(***************************************************************************)
(* SpecInvoices: invoice creation, update and deletion over a change of    *)
(* year, with every combination of item and global tax rates.              *)
(***************************************************************************)
GlobalTax == {<<>>, [global_tax_rate |-> 0], [global_tax_rate |-> 10]}

CalcBodies ==
    {Spread(InvoiceBody(cid, items, "pending"), tax) :
        cid \in Uuids("client", 1),
        items \in {<<ItemA, ItemB>>, <<ItemC>>, <<ItemD, ItemC>>},
        tax \in GlobalTax}

NextInvoices ==
    \/ CreateClient({[id |-> "u1", roles |-> {"user"}]}, ClientBodies, 1)
    \/ CreateInvoice(Users, CalcBodies, MaxNumbered)
    \/ UpdateInvoice(Users, CalcBodies, MaxNumbered)
    \/ RemoveInvoice(Users, MaxNumbered)
    \/ Tick

SpecInvoices == Init /\ [][NextInvoices]_vars

(***************************************************************************)
(* SpecPair: two runs side by side.  `db` serves the requests of u1 and of *)
(* u2; `solo` is served the same requests of u2, with the same uuids, and  *)
(* none of u1's.                                                           *)
(***************************************************************************)
PairRequests(user) ==
    {[op |-> "PostClient", user |-> user, body |-> body] : body \in ClientBodies}
    \cup {[op |-> "PostInvoice", user |-> user,
           body |-> InvoiceBody(cid, <<ItemC>>, "pending")]
             : cid \in Uuids("client", MaxClients)}
    \cup {[op |-> "DeleteInvoice", user |-> user, id |-> iid]
             : iid \in Uuids("invoice", MaxInvoices)}
    \cup {[op |-> "PostPayment", user |-> user, id |-> iid, body |-> body]
             : iid \in Uuids("invoice", MaxInvoices),
               body \in {b \in PaymentBodies : b.amount = 100 * One}}

\* The kind of uuid a request draws when it stores a record.
Kind(req) ==
    CASE req.op = "PostClient" -> "client"
      [] req.op = "PostInvoice" -> "invoice"
      [] req.op = "PostPayment" -> "payment"
      [] OTHER -> "none"

Cap(kind) ==
    CASE kind = "client" -> MaxClients
      [] kind = "invoice" -> MaxInvoices
      [] kind = "payment" -> MaxPayments
      [] OTHER -> 0

\* The router: the handler of the request's route, applied to the store d.
Serve(d, req) ==
    CASE req.op = "PostClient" ->
             PostClient(d, req.user, req.body, uuidv4("client"))
      [] req.op = "PostInvoice" ->
             PostInvoice(d, req.user, req.body, uuidv4("invoice"), now)
      [] req.op = "DeleteInvoice" ->
             DeleteInvoice(d, req.user, req.id)
      [] req.op = "PostPayment" ->
             PostPayment(d, req.user, req.id, req.body, uuidv4("payment"), now)

UserA == [id |-> "u1", roles |-> {"user"}]
UserB == [id |-> "u2", roles |-> {"user"}]

ServeA ==
    \E req \in PairRequests(UserA) :
        /\ Kind(req) # "none" => uuids[Kind(req)] < Cap(Kind(req))
        /\ LET r == Serve(db, req)
           IN /\ db' = r.db
              /\ uuids' = IF r.status = 201 THEN [uuids EXCEPT ![Kind(req)] = @ + 1]
                                            ELSE uuids
        /\ UNCHANGED <<now, solo, seen, inflight>>

ServeB ==
    \E req \in PairRequests(UserB) :
        /\ Kind(req) # "none" => uuids[Kind(req)] < Cap(Kind(req))
        /\ LET r == Serve(db, req)
               s == Serve(solo, req)
           IN /\ db' = r.db
              /\ solo' = s.db
              /\ seen' = <<r.status, s.status>>
              /\ uuids' = IF r.status = 201 \/ s.status = 201
                          THEN [uuids EXCEPT ![Kind(req)] = @ + 1]
                          ELSE uuids
        /\ UNCHANGED <<now, inflight>>

NextPair == ServeA \/ ServeB

SpecPair == Init /\ [][NextPair]_vars

(***************************************************************************)
(* SpecRevenue: one user with two clients, so that the revenue report has  *)
(* entries to choose among and to put in order.                            *)
(***************************************************************************)
RevenueClients == {[name |-> "Acme", email |-> "a@x.io"],
                   [name |-> "Bolt", email |-> "b@x.io"]}

RevenueInvoices ==
    {InvoiceBody(cid, items, "pending") :
        cid \in Uuids("client", MaxClients), items \in {<<ItemA, ItemB>>, <<ItemC>>}}

\* An update that takes a paid invoice out of the report.
RevenueUpdates ==
    {InvoiceBody(cid, <<ItemC>>, "cancelled") : cid \in Uuids("client", MaxClients)}

RevenuePayments ==
    {[amount |-> a, payment_date |-> Day0, payment_method |-> "cash"]
        : a \in {270 * One, 130 * One, 4}}

NextRevenue ==
    \/ CreateClient({UserA}, RevenueClients, MaxClients)
    \/ CreateInvoice({UserA}, RevenueInvoices, MaxNumbered)
    \/ UpdateInvoice({UserA}, RevenueUpdates, MaxNumbered)
    \/ RecordPayment({UserA}, RevenuePayments, MaxNumbered)

SpecRevenue == Init /\ [][NextRevenue]_vars

(***************************************************************************)
(* SpecForged: invoice requests whose body carries fields of the stored    *)
(* record.  The handlers spread the rest of the body over the record they  *)
(* build, so an `id` in the body is stored as it comes.                    *)
(***************************************************************************)
\* The ids a forged body names are those of the invoices stored at the time.
ForgedInvoices ==
    UNION {{InvoiceBody(cid, <<ItemC>>, "pending")}
           \cup {Spread(InvoiceBody(cid, <<ItemC>>, "paid"), [id |-> db.invoices[i].id])
                    : i \in 1..Len(db.invoices)}
           : cid \in Uuids("client", MaxClients)}

ForgedPayments == {b \in PaymentBodies : b.amount = 100 * One}

NextForged ==
    \/ CreateClient(Users, ClientBodies, MaxClients)
    \/ CreateInvoice(Users, ForgedInvoices, MaxInvoices)
    \/ UpdateInvoice(Users, ForgedInvoices, MaxInvoices)
    \/ RemoveInvoice(Users, MaxInvoices)
    \/ RecordPayment(Users, ForgedPayments, MaxInvoices)

SpecForged == Init /\ [][NextForged]_vars

(***************************************************************************)
(* SpecConcurrent: several invoice creations in flight at once.  A request *)
(* is received and validated by the asynchronous middleware chain, then    *)
(* its handler runs; the handler has no await, so it runs to its end       *)
(* before any other handler starts.  No invoice is deleted.                *)
(***************************************************************************)
ConcurrentBodies ==
    {InvoiceBody(cid, <<ItemC>>, "pending") : cid \in Uuids("client", MaxClients)}

\* The request enters the server: body parser and validation middleware.
ReceiveInvoice ==
    \E s \in Slots, user \in Users, body \in ConcurrentBodies :
        /\ inflight[s] = Idle
        /\ uuids.invoice < MaxNumbered
        /\ invoiceValidationRules(body)
        /\ inflight' = [inflight EXCEPT ![s] =
                           [pc |-> "validated", op |-> "PostInvoice",
                            user |-> user, body |-> body]]
        /\ UNCHANGED <<db, now, uuids, solo, seen>>

\* Mutant of HandleInvoice: the handler yields between generating the number
\* and pushing the invoice.
HandleInvoiceTwoStep ==
    \E s \in Slots :
        /\ inflight[s].pc = "validated"
        /\ inflight[s].op = "PostInvoice"
        /\ uuids.invoice < MaxNumbered
        /\ IF ~Has(inflight[s], "number")
           THEN /\ inflight' = [inflight EXCEPT ![s] =
                                   Spread(@, [number |-> generateInvoiceNumber(db, now)])]
                /\ UNCHANGED <<db, uuids>>
           ELSE /\ LET r == PostInvoice(db, inflight[s].user,
                                        Spread(inflight[s].body,
                                               [invoice_number |-> inflight[s].number]),
                                        uuidv4("invoice"), now)
                   IN db' = r.db /\ uuids' = Drawn("invoice", r)
                /\ inflight' = [inflight EXCEPT ![s] = Idle]
        /\ UNCHANGED <<now, solo, seen>>

\* The handler of invoiceRouter.post('/') runs, whole.
HandleInvoice ==
    \E s \in Slots :
        /\ inflight[s].pc = "validated"
        /\ inflight[s].op = "PostInvoice"
        /\ uuids.invoice < MaxNumbered
        /\ LET r == PostInvoice(db, inflight[s].user, inflight[s].body,
                                uuidv4("invoice"), now)
           IN db' = r.db /\ uuids' = Drawn("invoice", r)
        /\ inflight' = [inflight EXCEPT ![s] = Idle]
        /\ UNCHANGED <<now, solo, seen>>

NextConcurrent ==
    \/ CreateClient(Users, ClientBodies, MaxClients)
    \/ ReceiveInvoice
    \/ HandleInvoice

SpecConcurrent == Init /\ [][NextConcurrent]_vars

(***************************************************************************)
(* SpecRegister: registrations.  The handler looks the email up, awaits    *)
(* bcrypt.hash, and inserts the user when the hash is there: between the   *)
(* two, the handlers of other requests run.                                *)
(***************************************************************************)
MinPassword == 6

\* The validation chain of authRouter.post('/register') + validateRequest.
registerValidation(body) ==
    /\ body.name # ""
    /\ isEmail(body.email)
    /\ Len(body.password) >= MinPassword

RegisterBodies ==
    [name : {"Ann", "Bob"}, email : {"A@x.io", "a@x.io", "b@x.io"},
     password : {<<1, 2, 3, 4, 5, 6>>}]
        \cup {[name |-> "Ann", email |-> "a@x.io", password |-> <<1, 2, 3>>]}

\* The handler up to `await bcrypt.hash(password, 10)`.
RegisterCheck ==
    \E s \in Slots, body \in RegisterBodies :
        /\ inflight[s] = Idle
        /\ uuids.user < MaxUsers
        /\ LET email == normalizeEmail(body.email)
               taken(u) == u.email = email
           IN inflight' =
                IF registerValidation(body) /\ FindIndex(db.users, taken) = 0
                THEN [inflight EXCEPT ![s] =
                         [pc |-> "hashing", op |-> "register",
                          name |-> body.name, email |-> email,
                          password |-> body.password]]
                ELSE inflight
        /\ UNCHANGED <<db, now, uuids, solo, seen>>

\* The handler from the resolved hash on: newUser, db.users.push and the
\* settings of the new user.
RegisterInsert ==
    \E s \in Slots :
        /\ inflight[s].pc = "hashing"
        /\ LET newUser == [id |-> uuidv4("user"),
                           name |-> inflight[s].name,
                           email |-> inflight[s].email,
                           passwordHash |-> <<"bcrypt", inflight[s].password>>,
                           roles |-> {"user"}]
               settings == [k \in {newUser.id} |->
                               [companyName |-> <<newUser.name, "'s Company">>,
                                defaultCurrency |-> "USD",
                                defaultTaxRate |-> 0]]
           IN db' = [db EXCEPT !.users = Append(@, newUser),
                               !.settings = Spread(@, settings)]
        /\ uuids' = [uuids EXCEPT !.user = @ + 1]
        /\ inflight' = [inflight EXCEPT ![s] = Idle]
        /\ UNCHANGED <<now, solo, seen>>

NextRegister == RegisterCheck \/ RegisterInsert

SpecRegister == Init /\ [][NextRegister]_vars

(***************************************************************************)
(* Properties.                                                             *)
(***************************************************************************)
\* The sum of f[x] over the finite set S.
RECURSIVE SumOver(_, _)
SumOver(S, f) ==
    IF S = {} THEN 0
    ELSE LET x == CHOOSE y \in S : TRUE IN f[x] + SumOver(S \ {x}, f)

\* The sum of the amounts of the payments stored in d for invoice id iid.
PaidOn(d, iid) ==
    SumOver({j \in 1..Len(d.payments) : d.payments[j].invoiceId = iid},
            [j \in 1..Len(d.payments) |-> d.payments[j].amount])

\* total_amount minus the payments stored for the i-th invoice of the store.
Balance(i) == db.invoices[i].total_amount - PaidOn(db, db.invoices[i].id)

InvoicesOf(uid) == {i \in 1..Len(db.invoices) : db.invoices[i].userId = uid}

\* C2: after every successful payment recording, the invoice's status is
\* "paid" when the payments stored for it (the new one included) sum to at
\* least its total, and "partially_paid" otherwise, whatever it was before.
C2_StatusAfterPayment ==
    \A user \in Users, iid \in Uuids("invoice", MaxInvoices), body \in PaymentBodies :
        LET r == PostPayment(db, user, iid, body, uuidv4("payment"), now)
        IN r.status = 201 =>
            /\ Len(r.db.payments) = Len(db.payments) + 1
            /\ \E i \in InvoicesOf(user.id) : db.invoices[i].id = iid
            /\ \A i \in InvoicesOf(user.id) :
                  db.invoices[i].id = iid =>
                      r.db.invoices[i].status =
                          IF PaidOn(r.db, iid) >= r.db.invoices[i].total_amount
                          THEN "paid" ELSE "partially_paid"

\* C2 witness: the invoice of 270.00 is paid after the payments of 100.00 and
\* 170.00, beside a cancelled invoice that one more payment would flip.
C2_Witness ==
    /\ \E i \in 1..Len(db.invoices) :
          /\ db.invoices[i].total_amount = 270 * One
          /\ db.invoices[i].status = "paid"
          /\ PaidOn(db, db.invoices[i].id) = 270 * One
          /\ Len(db.payments) = 2
    /\ \E i \in 1..Len(db.invoices), user \in Users, body \in PaymentBodies :
          LET r == PostPayment(db, user, db.invoices[i].id, body,
                               uuidv4("payment"), now)
          IN /\ db.invoices[i].status = "cancelled"
             /\ r.status = 201
             /\ r.db.invoices[i].status = "partially_paid"

\* C4: every stored payment references a stored invoice, and the payment
\* listing of an invoice that is not stored answers 404.
C4_PaymentsHaveInvoice ==
    /\ \A j \in 1..Len(db.payments) :
          \E i \in 1..Len(db.invoices) : db.invoices[i].id = db.payments[j].invoiceId
    /\ \A user \in Users, iid \in Uuids("invoice", MaxInvoices) :
          (\A i \in 1..Len(db.invoices) : db.invoices[i].id # iid)
              => GetPayments(db, user, iid).status = 404

\* C4 witness: an invoice that held both recorded payments has been deleted,
\* while another invoice is still stored.
C4_Witness ==
    /\ uuids.payment = 2
    /\ db.payments = <<>>
    /\ Len(db.invoices) = 1

\* C6: in the summary report of every user, total_overdue <= total_outstanding.
C6_OverdueWithinOutstanding ==
    \A user \in Users :
        Summary(db, user, now).total_overdue <= Summary(db, user, now).total_outstanding

\* C6 witness: a user with an overdue balance and a larger outstanding one,
\* one of the two invoices partly paid.
C6_Witness ==
    \E user \in Users :
        /\ Summary(db, user, now).total_overdue > 0
        /\ Summary(db, user, now).total_overdue
               < Summary(db, user, now).total_outstanding
        /\ db.payments # <<>>

\* C7: total_outstanding is the sum (to 2 decimals, as the report gives it) of
\* the balances of exactly the user's invoices whose status is pending,
\* partially_paid or overdue and whose balance is positive.
C7_Outstanding ==
    \A user \in Users :
        Summary(db, user, now).total_outstanding =
            ToFixed2(SumOver({i \in InvoicesOf(user.id) :
                                /\ db.invoices[i].status
                                      \in {"pending", "partially_paid", "overdue"}
                                /\ Balance(i) > 0},
                             [i \in 1..Len(db.invoices) |-> Balance(i)]))

\* C7 witness: a user with one invoice that counts, and one overpaid invoice
\* that is pending and contributes nothing.
C7_Witness ==
    \E user \in Users :
        /\ Summary(db, user, now).total_outstanding > 0
        /\ \E i \in InvoicesOf(user.id) :
              db.invoices[i].status = "pending" /\ Balance(i) < 0

\* C8: paid_last_30_days is the sum of the payments on the user's invoices
\* dated from now - 30 days to now, both included.
C8_PaidLast30Days ==
    \A user \in Users :
        Summary(db, user, now).paid_last_30_days =
            ToFixed2(SumOver({j \in 1..Len(db.payments) :
                                /\ \E i \in InvoicesOf(user.id) :
                                      db.invoices[i].id = db.payments[j].invoiceId
                                /\ db.payments[j].payment_date >= now - 30
                                /\ db.payments[j].payment_date <= now},
                             [j \in 1..Len(db.payments) |-> db.payments[j].amount]))

\* The principals and queries of the revenue report.
Callers == [id : UserIds, roles : SUBSET {"user", "admin"}]
Queries == {<<>>} \cup {[userId |-> u] : u \in UserIds}

\* The revenue of client cid in the hands of user uid: the payments recorded
\* by uid on uid's paid or partly paid invoices to that client.
OwnRevenue(uid, cid) ==
    SumOver({j \in 1..Len(db.payments) :
                /\ db.payments[j].userId = uid
                /\ \E i \in InvoicesOf(uid) :
                      /\ db.invoices[i].id = db.payments[j].invoiceId
                      /\ db.invoices[i].clientId = cid
                      /\ db.invoices[i].status \in {"paid", "partially_paid"}},
            [j \in 1..Len(db.payments) |-> db.payments[j].amount])

C1_UniqueNumbers ==
    \A i, j \in 1..Len(db.invoices) :
        i # j => db.invoices[i].invoice_number # db.invoices[j].invoice_number

\* The tax rate C3 gives an item: its own when it supplies one (0 included),
\* else the invoice's global rate when supplied, else 0.
ClaimedRate(item, body) ==
    IF Has(item, "tax_rate") THEN item.tax_rate
    ELSE IF Has(body, "global_tax_rate") THEN body.global_tax_rate
    ELSE 0

\* C3: the total of a created invoice is the sum (to 2 decimals) over its
\* items of quantity x unit_price x (1 + rate/100), rate as in ClaimedRate.
C3_TotalOnCreation ==
    \A user \in Users, body \in CalcBodies :
        LET r == PostInvoice(db, user, body, uuidv4("invoice"), now)
            n == Len(r.db.invoices)
            line(k) == LET item == body.items[k]
                       IN (item.quantity * item.unit_price
                              * (100 + ClaimedRate(item, body))) \div 100
        IN r.status = 201 =>
            r.db.invoices[n].total_amount =
                ToFixed2(SumOver(1..Len(body.items),
                                 [k \in 1..Len(body.items) |-> line(k)]))

\* C5: no two clients of one user have the same email.
C5_UniqueEmails ==
    \A i, j \in 1..Len(db.clients) :
        (i # j /\ db.clients[i].userId = db.clients[j].userId)
            => db.clients[i].email # db.clients[j].email

\* What a user stores and what its reports show, in the store d.
View(d, user) ==
    LET own(x) == x.userId = user.id
    IN [clients |-> Filter(d.clients, own),
        invoices |-> Filter(d.invoices, own),
        payments |-> Filter(d.payments, own),
        summary |-> Summary(d, user, now),
        revenue |-> RevenueByClient(d, user, <<>>).data]

\* C9: what u2 stores and is answered is the same whether or not the requests
\* of u1 are served: the two users share no mutable state.
C9_Independent ==
    /\ View(db, UserB) = View(solo, UserB)
    /\ seen[1] = seen[2]

\* The invoices of client cid that the revenue report counts.
CountedFor(cid) ==
    {i \in 1..Len(db.invoices) :
        /\ db.invoices[i].clientId = cid
        /\ db.invoices[i].status \in {"paid", "partially_paid"}}

\* The sum of all payments on the counted invoices of client cid.
RevenueOf(cid) ==
    SumOver({j \in 1..Len(db.payments) :
                \E i \in CountedFor(cid) : db.invoices[i].id = db.payments[j].invoiceId},
            [j \in 1..Len(db.payments) |-> db.payments[j].amount])

\* C11: the revenue report of a target user has one entry for exactly those of
\* the target's clients whose total_revenue (to 2 decimals) is positive;
\* total_revenue is the sum of all payments on the client's paid or partly
\* paid invoices, invoice_count the number of those invoices, and the entries
\* come in order of non-increasing total_revenue.
C11_RevenueReport ==
    \A caller \in Callers, query \in Queries :
        LET r == RevenueByClient(db, caller, query)
            target == IF "admin" \in caller.roles /\ Has(query, "userId")
                      THEN query.userId ELSE caller.id
            listed == {c \in 1..Len(db.clients) :
                          /\ db.clients[c].userId = target
                          /\ ToFixed2(RevenueOf(db.clients[c].id)) > 0}
        IN r.status = 200 =>
            /\ Len(r.data) = Cardinality(listed)
            /\ \A c \in listed :
                  \E k \in 1..Len(r.data) :
                      r.data[k] =
                          [client_id |-> db.clients[c].id,
                           client_name |-> db.clients[c].name,
                           invoice_count |-> Cardinality(CountedFor(db.clients[c].id)),
                           total_revenue |-> ToFixed2(RevenueOf(db.clients[c].id))]
            /\ \A k \in 1..(Len(r.data) - 1) :
                  r.data[k].total_revenue >= r.data[k + 1].total_revenue

\* C11 witness: a client with two paid invoices, paid in full at 270.00 and
\* 130.00, is listed with invoice_count 2 and total_revenue 400.00; the other
\* client has an invoice nobody paid and is not listed.
C11_Witness ==
    LET r == RevenueByClient(db, UserA, <<>>)
    IN /\ Len(db.clients) = 2
       /\ Len(db.invoices) = 3
       /\ Len(r.data) = 1
       /\ r.data[1].invoice_count = 2
       /\ r.data[1].total_revenue = 400 * One
       /\ \A i \in CountedFor(r.data[1].client_id) :
              /\ db.invoices[i].status = "paid"
              /\ PaidOn(db, db.invoices[i].id) = db.invoices[i].total_amount

\* C12: a payment request with an amount <= 0, with an empty payment method,
\* or naming an invoice that is not stored or is owned by another user, is
\* answered with an error and leaves the whole store as it was: no payment
\* more, no invoice's status or updatedAt changed.
C12_RejectedPaymentChangesNothing ==
    \A user \in Users, iid \in Uuids("invoice", MaxInvoices),
       body \in PaymentBodies \cup RejectedPayments :
        LET r == PostPayment(db, user, iid, body, uuidv4("payment"), now)
            owned == \E i \in 1..Len(db.invoices) :
                        db.invoices[i].id = iid /\ db.invoices[i].userId = user.id
        IN (body.amount <= 0 \/ body.payment_method = "" \/ ~owned) =>
            /\ r.status \in {400, 404}
            /\ r.db = db

\* C12 witness: u1 has a partly paid invoice and u2 an invoice of its own; a
\* payment of u2 on u1's invoice is answered 404, a payment of u1 without an
\* amount 400, a payment on an invoice that was deleted 404, and one more
\* payment could still be recorded.
C12_Witness ==
    /\ uuids.payment < MaxPayments
    /\ \E i, k \in 1..Len(db.invoices) :
          /\ db.invoices[i].userId = "u1"
          /\ db.invoices[i].status = "partially_paid"
          /\ db.invoices[k].userId = "u2"
          /\ PostPayment(db, UserB, db.invoices[i].id,
                         CHOOSE b \in PaymentBodies : b.amount = 100 * One,
                         uuidv4("payment"), now).status = 404
          /\ PostPayment(db, UserA, db.invoices[i].id,
                         CHOOSE b \in RejectedPayments : b.amount = 0,
                         uuidv4("payment"), now).status = 400
          /\ PostPayment(db, UserA, db.invoices[i].id,
                         CHOOSE b \in PaymentBodies : b.amount = 100 * One,
                         uuidv4("payment"), now).status = 201

\* The records of the sequence `before` that user uid does not own are all
\* found, as they were, in the sequence `after`.
OthersKept(before, after, uid) ==
    \A i \in 1..Len(before) :
        before[i].userId # uid => \E j \in 1..Len(after) : after[j] = before[i]

\* The store r.db keeps every client, invoice and payment of db that the
\* caller does not own.
KeepsOthers(r, user) ==
    /\ OthersKept(db.clients, r.db.clients, user.id)
    /\ OthersKept(db.invoices, r.db.invoices, user.id)
    /\ OthersKept(db.payments, r.db.payments, user.id)

\* The id names a record of the sequence that another user owns.
NamesOthers(seq, id, user) ==
    \E i \in 1..Len(seq) : seq[i].id = id /\ seq[i].userId # user.id

\* C17: no client, invoice or payment request of a user changes or removes a
\* client, invoice or payment owned by another user, and a request that names
\* another user's client or invoice is answered 404 and leaves the store as it
\* was.
C17_NoCrossUserChange ==
    \A user \in Users :
        /\ \A cid \in Uuids("client", MaxClients) :
              /\ \A body \in ClientBodies :
                    LET r == PutClient(db, user, cid, body)
                    IN /\ KeepsOthers(r, user)
                       /\ NamesOthers(db.clients, cid, user)
                              => (r.status = 404 /\ r.db = db)
              /\ LET r == DeleteClient(db, user, cid)
                 IN /\ KeepsOthers(r, user)
                    /\ NamesOthers(db.clients, cid, user)
                           => (r.status = 404 /\ r.db = db)
        /\ \A body \in ForgedInvoices :
              LET r == PostInvoice(db, user, body, uuidv4("invoice"), now)
              IN /\ KeepsOthers(r, user)
                 /\ NamesOthers(db.clients, body.client_id, user)
                        => (r.status = 404 /\ r.db = db)
        /\ \A iid \in Uuids("invoice", MaxInvoices) :
              /\ \A body \in ForgedInvoices :
                    LET r == PutInvoice(db, user, iid, body, now)
                    IN /\ KeepsOthers(r, user)
                       /\ (\/ NamesOthers(db.invoices, iid, user)
                           \/ NamesOthers(db.clients, body.client_id, user))
                              => (r.status = 404 /\ r.db = db)
              /\ LET r == DeleteInvoice(db, user, iid)
                 IN /\ KeepsOthers(r, user)
                    /\ NamesOthers(db.invoices, iid, user)
                           => (r.status = 404 /\ r.db = db)
              /\ \A body \in ForgedPayments :
                    LET r == PostPayment(db, user, iid, body, uuidv4("payment"), now)
                    IN /\ KeepsOthers(r, user)
                       /\ NamesOthers(db.invoices, iid, user)
                              => (r.status = 404 /\ r.db = db)
              /\ NamesOthers(db.invoices, iid, user)
                     => GetPayments(db, user, iid).status = 404

RECURSIVE ParseInt(_)
ParseInt(digits) ==
    IF digits = <<>> THEN 0
    ELSE 10 * ParseInt(SubSeq(digits, 1, Len(digits) - 1)) + digits[Len(digits)]

\* The sequence part of an invoice number.
SequenceOf(number) == ParseInt(number[3])

\* C14: a newly created invoice gets a sequence number strictly greater than
\* that of every invoice created before it; in particular greater than that
\* of every invoice still stored, whatever was deleted in between.
C14_MonotonicSequence ==
    \A user \in Users, body \in CalcBodies :
        LET r == PostInvoice(db, user, body, uuidv4("invoice"), now)
        IN r.status = 201 =>
            \A i \in 1..Len(db.invoices) :
                SequenceOf(r.db.invoices[Len(r.db.invoices)].invoice_number)
                    > SequenceOf(db.invoices[i].invoice_number)

C16_ClientDeleteNoCascade ==
    \A user \in Users, cid \in Uuids("client", MaxClients) :
        LET r == DeleteClient(db, user, cid)
            gone == {c \in 1..Len(db.clients) :
                        db.clients[c].id = cid /\ db.clients[c].userId = user.id}
        IN /\ r.db.invoices = db.invoices
           /\ r.db.payments = db.payments
           /\ r.db.users = db.users
           /\ Len(r.db.clients) = Len(db.clients) - Cardinality(gone)
           /\ \A c \in 1..Len(db.clients) :
                 c \notin gone => \E k \in 1..Len(r.db.clients) :
                                     r.db.clients[k] = db.clients[c]
           /\ r.status = IF gone = {} THEN 404 ELSE 204

\* C16 witness: the client of a paid invoice has been deleted; the invoice
\* still carries its id and its name, and the payment is still stored.
C16_Witness ==
    \E i \in 1..Len(db.invoices) :
        /\ \A c \in 1..Len(db.clients) : db.clients[c].id # db.invoices[i].clientId
        /\ db.invoices[i].client_name = "Acme"
        /\ db.invoices[i].status = "paid"
        /\ PaidOn(db, db.invoices[i].id) >= db.invoices[i].total_amount
        /\ \E k \in 1..Len(db.invoices) : k # i

\* C18: every stored invoice's total_amount is what the total calculator
\* gives for the items and the global tax rate the invoice now stores.
C18_TotalMatchesItems ==
    \A i \in 1..Len(db.invoices) :
        db.invoices[i].total_amount = TotalAmount(db.invoices[i].items, db.invoices[i])

\* C19: no two stored users have the same email, however the handlers of the
\* registrations in flight are interleaved.
C19_UniqueUserEmails ==
    \A i, j \in 1..Len(db.users) :
        i # j => db.users[i].email # db.users[j].email

====
